---- MODULE Spec2Model ----
(***************************************************************************)
(* School portal: Student / Teacher records, the two student forms, the    *)
(* request handlers of students/views.py and the post_save / post_delete   *)
(* receivers of students/signals.py that keep a django.contrib.auth User   *)
(* ("Account") per Student.                                                *)
(*                                                                         *)
(* Text values (names, grades, usernames) are sequences of one-character   *)
(* strings so that str.replace(" ", ""), str.lower() and the CharField     *)
(* strip are computed, not assumed.                                        *)
(*                                                                         *)
(* Left out: Student.profile_picture (optional, read by no handler logic), *)
(* the ordering of listed rows (Meta.ordering), and ages that do not parse *)
(* as integers. The database runs in autocommit, Django's default.         *)
(***************************************************************************)
EXTENDS Integers, Sequences, FiniteSets, TLC

VARIABLES
    teachers,   \* set of primary keys of the persisted Teacher rows
    students,   \* function: primary key -> Student row, for the persisted rows
    nextId,     \* next primary key the store hands to a new Student
    accounts,   \* usernames of the persisted auth User rows
    session,    \* username the browser session is logged in as, or NoUser
    resp,       \* the last request and the response it got
    origName,   \* history: primary key -> name the Student was created with
    probe       \* both student forms bound to the same POST data (is_valid)

vars == <<teachers, students, nextId, accounts, session, resp, origName, probe>>

----------------------------------------------------------------------------
(* Bounds of the model *)

\* number of Student rows ever created
MaxStudentId == 2
\* ages probed on the two forms run from -ProbeAgeSpan to AgeLimit + ProbeAgeSpan
ProbeAgeSpan == 3

(* Program constants *)

\* forms.py: if age < 18
AgeLimit == 18
\* models.py: PositiveIntegerField -> form field min_value
PositiveMin == 0
\* models.py: name max_length (StudentModelForm)
NameMaxModel == 250
\* forms.py: StudentForm.name max_length
NameMaxForm == 100
\* grade max_length, both forms
GradeMax == 10

AgeMsg == "Age must be at least 18."
MinMsg == "Ensure this value is greater than or equal to 0."
RequiredMsg == "This field is required."
TooLongMsg == "Ensure this value has at most N characters."
ChoiceMsg == "Select a valid choice. That choice is not one of the available choices."
LoginMsg == "Please enter a correct username and password."
SignUpMsg == "The sign-up form holds errors."

\* request.user is AnonymousUser
NoUser == <<>>

----------------------------------------------------------------------------
(* Text helpers *)

UpperChars == <<"A","B","C","D","E","F","G","H","I","J","K","L","M",
                "N","O","P","Q","R","S","T","U","V","W","X","Y","Z">>
LowerChars == <<"a","b","c","d","e","f","g","h","i","j","k","l","m",
                "n","o","p","q","r","s","t","u","v","w","x","y","z">>

\* str.lower() on one character
LowerOf ==
    [c \in {UpperChars[i] : i \in 1..Len(UpperChars)} |->
        LowerChars[CHOOSE i \in 1..Len(UpperChars) : UpperChars[i] = c]]
LowerChar(c) == IF c \in DOMAIN LowerOf THEN LowerOf[c] ELSE c

\* str.lower()
Lower(s) == [i \in 1..Len(s) |-> LowerChar(s[i])]

\* str.replace(" ", "")
RECURSIVE RemoveSpaces(_)
RemoveSpaces(s) ==
    IF s = <<>> THEN <<>>
    ELSE IF Head(s) = " " THEN RemoveSpaces(Tail(s))
    ELSE <<Head(s)>> \o RemoveSpaces(Tail(s))

\* forms.CharField(strip=True): leading and trailing blanks dropped
RECURSIVE LStrip(_)
LStrip(s) == IF s # <<>> /\ Head(s) = " " THEN LStrip(Tail(s)) ELSE s
RECURSIVE RStrip(_)
RStrip(s) ==
    IF s # <<>> /\ s[Len(s)] = " " THEN RStrip(SubSeq(s, 1, Len(s) - 1)) ELSE s
Strip(s) == RStrip(LStrip(s))

UsernameNoLower(name) == RemoveSpaces(name)
\* signals.py: instance.name.replace(" ", "").lower()
Username(name) == Lower(RemoveSpaces(name))

----------------------------------------------------------------------------
(* Inputs of the requests *)

AnnLee == <<"A","n","n"," ","L","e","e">>
annlee == <<"a","n","n"," ","l","e","e">>
BobBlank == <<"B","o","b"," ">>

NameInputs == {AnnLee, annlee, BobBlank}
GradeInputs == {<<"A">>}
AgeInputs == {-1, 17, 18}
\* the Teacher rows present initially (created through the admin site)
InitialTeachers == {1, 2}
TeacherInputs == InitialTeachers
IdInputs == 1..MaxStudentId
Methods == {"GET", "POST"}
\* usernames a visitor may register with
RegInputs == {<<"a","n","n","l","e","e">>}
ProbeAges == (0 - ProbeAgeSpan)..(AgeLimit + ProbeAgeSpan)

POSTData == [name : NameInputs, age : AgeInputs, grade : GradeInputs,
             teacher : TeacherInputs]

\* the plain form reads teacher as free text: one posted value stands for all
PlainData == {d \in POSTData : d.teacher = 1}

ProbeData == [name : NameInputs \cup {<<" ">>}, age : ProbeAges, grade : GradeInputs,
              teacher : TeacherInputs]

----------------------------------------------------------------------------
(* Validation layer: students/forms.py *)

\* forms.CharField(max_length=n): required, stripped, at most n characters
CharFieldErrors(field, raw, maxLen) ==
    IF Strip(raw) = <<>> THEN {<<field, RequiredMsg>>}
    ELSE IF Len(Strip(raw)) > maxLen THEN {<<field, TooLongMsg>>}
    ELSE {}

clean_age_rejects_limit(age) ==
    IF age <= AgeLimit THEN {<<"age", AgeMsg>>} ELSE {}
\* StudentForm.clean_age
StudentForm_clean_age(age) ==
    IF age < AgeLimit THEN {<<"age", AgeMsg>>} ELSE {}

clean_age_off_by_one(age) ==
    IF age + 1 < AgeLimit THEN {<<"age", AgeMsg>>} ELSE {}
\* StudentModelForm.clean_age
StudentModelForm_clean_age(age) ==
    IF age < AgeLimit THEN {<<"age", AgeMsg>>} ELSE {}

\* the form field PositiveIntegerField gives the ModelForm: IntegerField(min_value=0)
PositiveIntegerFieldErrors(age) ==
    IF age < PositiveMin THEN {<<"age", MinMsg>>} ELSE {}

\* StudentForm: age = forms.IntegerField() has no bound of its own, so clean_age
\* always runs; teacher is a CharField and the posted key is non-empty text
StudentFormAgeErrors(age) == StudentForm_clean_age(age)

\* StudentModelForm: clean_age runs only when the field's own validation passed
StudentModelFormAgeErrors(age) ==
    IF PositiveIntegerFieldErrors(age) # {} THEN PositiveIntegerFieldErrors(age)
    ELSE StudentModelForm_clean_age(age)

\* StudentForm(request.POST).errors
StudentFormErrors(d) ==
    CharFieldErrors("name", d.name, NameMaxForm)
        \cup StudentFormAgeErrors(d.age)
        \cup CharFieldErrors("grade", d.grade, GradeMax)

\* StudentModelForm(request.POST).errors; teacher is a ModelChoiceField over the
\* persisted Teacher rows
StudentModelFormErrors(d, tchs) ==
    CharFieldErrors("name", d.name, NameMaxModel)
        \cup StudentModelFormAgeErrors(d.age)
        \cup CharFieldErrors("grade", d.grade, GradeMax)
        \cup (IF d.teacher \in tchs THEN {} ELSE {<<"teacher", ChoiceMsg>>})

\* form.cleaned_data of a valid StudentModelForm, as the Student row it saves
Cleaned(d) ==
    [name |-> Strip(d.name), age |-> d.age, grade |-> Strip(d.grade),
     teacher |-> d.teacher]

----------------------------------------------------------------------------
(* Account-sync hook: students/signals.py *)

create_user_no_lower(instance, created, accs) ==
    IF ~created
    THEN [accounts |-> accs, raised |-> FALSE, printed |-> {}]
    ELSE IF UsernameNoLower(instance.name) \in accs
    THEN [accounts |-> accs, raised |-> TRUE, printed |-> {}]
    ELSE [accounts |-> accs \cup {UsernameNoLower(instance.name)},
          raised |-> FALSE, printed |-> {"created"}]
create_user_always(instance, created, accs) ==
    IF Username(instance.name) \in accs
    THEN [accounts |-> accs, raised |-> TRUE, printed |-> {}]
    ELSE [accounts |-> accs \cup {Username(instance.name)}, raised |-> FALSE,
          printed |-> {"created"}]
\* post_save receiver; User.username is unique, so create_user raises
\* IntegrityError when the username is taken
create_user_for_student(instance, created, accs) ==
    IF ~created
    THEN [accounts |-> accs, raised |-> FALSE, printed |-> {}]
    ELSE IF Username(instance.name) \in accs
    THEN [accounts |-> accs, raised |-> TRUE, printed |-> {}]
    ELSE [accounts |-> accs \cup {Username(instance.name)}, raised |-> FALSE,
          printed |-> {"created"}]

delete_user_keeps_account(instance, accs) ==
    [accounts |-> accs, printed |-> {"no_account"}]
\* post_delete receiver
delete_user_for_student(instance, accs) ==
    IF Username(instance.name) \in accs
    THEN [accounts |-> accs \ {Username(instance.name)}, printed |-> {"deleted"}]
    ELSE [accounts |-> accs, printed |-> {"no_account"}]

\* the post_delete receiver run once per deleted row (Collector.delete)
RECURSIVE DeleteHooks(_, _, _)
DeleteHooks(ids, rows, acc) ==
    IF ids = {} THEN acc
    ELSE LET i == CHOOSE x \in ids : TRUE
             h == delete_user_for_student(rows[i], acc.accounts)
         IN DeleteHooks(ids \ {i}, rows,
                        [accounts |-> h.accounts,
                         printed |-> acc.printed \cup h.printed])

\* a session whose User row is gone resolves to AnonymousUser
SessionAfter(accs) == IF session \in accs THEN session ELSE NoUser

Restrict(f, S) == [x \in S |-> f[x]]

----------------------------------------------------------------------------
(* State *)

Response(view, method, id, age, kind, errors, data, hook) ==
    [view |-> view, method |-> method, id |-> id, age |-> age, kind |-> kind,
     errors |-> errors, data |-> data, hook |-> hook]

Init ==
    /\ teachers = InitialTeachers
    /\ students = <<>>
    /\ nextId = 1
    /\ accounts = {}
    /\ session = NoUser
    /\ resp = Response("none", "GET", 0, {}, "ok", {}, {}, {})
    /\ origName = <<>>
    /\ probe = <<>>

store == <<teachers, students, nextId, accounts>>

\* a view that reads nothing and writes nothing but the response
Page(view) ==
    /\ resp' = Response(view, "GET", 0, {}, "ok", {}, {}, {})
    /\ UNCHANGED <<store, session>>

home == Page("home")
about == Page("about")
contact == Page("contact")
profile == Page("profile")
HelloView == Page("HelloView")
HomePageView == Page("HomePageView")

----------------------------------------------------------------------------
(* Request handlers: students/views.py *)

IsAuthenticated == session # NoUser

student_list_open ==
    /\ resp' = Response("student_list", "GET", 0, {}, "ok", {}, DOMAIN students, {})
    /\ UNCHANGED <<store, session>>
\* @login_required(login_url='login')
student_list ==
    /\ resp' = IF IsAuthenticated
               THEN Response("student_list", "GET", 0, {}, "ok", {},
                             DOMAIN students, {})
               ELSE Response("student_list", "GET", 0, {}, "redirect_login", {},
                             {}, {})
    /\ UNCHANGED <<store, session>>

\* get_object_or_404, then the row rendered
student_detail(student_id) ==
    /\ resp' = IF student_id \in DOMAIN students
               THEN Response("student_detail", "GET", student_id, {}, "ok", {},
                             {student_id}, {})
               ELSE Response("student_detail", "GET", student_id, {}, "not_found",
                             {}, {}, {})
    /\ UNCHANGED <<store, session>>

\* ListView over Student, no mixin
StudentListView ==
    /\ resp' = Response("StudentListView", "GET", 0, {}, "ok", {},
                        DOMAIN students, {})
    /\ UNCHANGED <<store, session>>

\* DetailView over Student, no mixin
StudentDetailView(pk) ==
    /\ resp' = IF pk \in DOMAIN students
               THEN Response("StudentDetailView", "GET", pk, {}, "ok", {}, {pk}, {})
               ELSE Response("StudentDetailView", "GET", pk, {}, "not_found", {},
                             {}, {})
    /\ UNCHANGED <<store, session>>

\* the plain form: a valid POST calls form.save(), which forms.Form does not
\* have (AttributeError); nothing is written on any path
student_form(method, d) ==
    /\ resp' = IF method # "POST"
               THEN Response("student_form", method, 0, {}, "ok", {}, {}, {})
               ELSE IF StudentFormErrors(d) # {}
               THEN Response("student_form", method, 0, {d.age}, "form_errors",
                             StudentFormErrors(d), {}, {})
               ELSE Response("student_form", method, 0, {d.age}, "server_error",
                             {}, {}, {})
    /\ UNCHANGED <<store, session>>

add_student_atomic(method, d) ==
    /\ method = "POST"
    /\ StudentModelFormErrors(d, teachers) = {}
    /\ nextId <= MaxStudentId
    /\ LET h == create_user_for_student(Cleaned(d), TRUE, accounts)
       IN /\ students' = IF h.raised THEN students
                         ELSE (nextId :> Cleaned(d)) @@ students
          /\ nextId' = nextId + 1
          /\ accounts' = h.accounts
          /\ resp' = Response("add_student", method, nextId, {d.age},
                              IF h.raised THEN "server_error"
                              ELSE "redirect_student_list", {}, {}, h.printed)
    /\ UNCHANGED <<teachers, session>>
\* form.save() inserts the row (autocommit), then post_save runs the receiver;
\* an IntegrityError raised there aborts the response, not the insert
add_student(method, d) ==
    IF method # "POST"
    THEN /\ resp' = Response("add_student", method, 0, {}, "ok", {}, {}, {})
         /\ UNCHANGED <<store, session>>
    ELSE LET errors == StudentModelFormErrors(d, teachers)
             h == create_user_for_student(Cleaned(d), TRUE, accounts)
         IN IF errors # {}
            THEN /\ resp' = Response("add_student", method, 0, {d.age},
                                     "form_errors", errors, {}, {})
                 /\ UNCHANGED <<store, session>>
            ELSE /\ nextId <= MaxStudentId
                 /\ students' = (nextId :> Cleaned(d)) @@ students
                 /\ nextId' = nextId + 1
                 /\ accounts' = h.accounts
                 /\ resp' = Response("add_student", method, nextId, {d.age},
                                     IF h.raised THEN "server_error"
                                     ELSE "redirect_student_list", {}, {},
                                     h.printed)
                 /\ UNCHANGED <<teachers, session>>

\* StudentModelForm(request.POST, instance=student): save() updates the row and
\* post_save reaches the receiver with created=False
update_student(method, id, d) ==
    IF id \notin DOMAIN students
    THEN /\ resp' = Response("update_student", method, id, {}, "not_found", {},
                             {}, {})
         /\ UNCHANGED <<store, session>>
    ELSE IF method # "POST"
    THEN /\ resp' = Response("update_student", method, id, {}, "ok", {}, {id}, {})
         /\ UNCHANGED <<store, session>>
    ELSE LET errors == StudentModelFormErrors(d, teachers)
             h == create_user_for_student(Cleaned(d), FALSE, accounts)
         IN IF errors # {}
            THEN /\ resp' = Response("update_student", method, id, {d.age},
                                     "form_errors", errors, {}, {})
                 /\ UNCHANGED <<store, session>>
            ELSE /\ students' = [students EXCEPT ![id] = Cleaned(d)]
                 /\ accounts' = h.accounts
                 /\ resp' = Response("update_student", method, id, {d.age},
                                     IF h.raised THEN "server_error"
                                     ELSE "redirect_student_list", {}, {},
                                     h.printed)
                 /\ UNCHANGED <<teachers, nextId, session>>

delete_student_keeps_row(method, id) ==
    /\ id \in DOMAIN students
    /\ method = "POST"
    /\ LET h == delete_user_for_student(students[id], accounts)
       IN /\ accounts' = h.accounts
          /\ session' = SessionAfter(h.accounts)
          /\ resp' = Response("delete_student", method, id, {},
                              "redirect_student_list", {}, {}, h.printed)
    /\ UNCHANGED <<teachers, students, nextId>>
\* student.delete() removes the row, then post_delete runs the receiver
delete_student(method, id) ==
    \/ /\ id \notin DOMAIN students
       /\ resp' = Response("delete_student", method, id, {}, "not_found", {}, {}, {})
       /\ UNCHANGED <<store, session>>
    \/ /\ id \in DOMAIN students
       /\ method # "POST"
       /\ resp' = Response("delete_student", method, id, {}, "ok", {}, {id}, {})
       /\ UNCHANGED <<store, session>>
    \/ /\ id \in DOMAIN students
       /\ method = "POST"
       /\ LET h == delete_user_for_student(students[id], accounts)
          IN /\ students' = Restrict(students, DOMAIN students \ {id})
             /\ accounts' = h.accounts
             /\ session' = SessionAfter(h.accounts)
             /\ resp' = Response("delete_student", method, id, {},
                                 "redirect_student_list", {}, {}, h.printed)
       /\ UNCHANGED <<teachers, nextId>>

\* SignUpForm: username unique among the User rows; fieldsValid stands for the
\* e-mail and the two password entries passing their validators
register(method, username, fieldsValid) ==
    \/ /\ method # "POST"
       /\ resp' = Response("register", method, 0, {}, "ok", {}, {}, {})
       /\ UNCHANGED <<store, session>>
    \/ /\ method = "POST"
       /\ (~fieldsValid \/ username \in accounts)
       /\ resp' = Response("register", method, 0, {}, "form_errors",
                           {<<"__all__", SignUpMsg>>}, {}, {})
       /\ UNCHANGED <<store, session>>
    \/ /\ method = "POST"
       /\ fieldsValid
       /\ username \notin accounts
       /\ accounts' = accounts \cup {username}
       /\ session' = username
       /\ resp' = Response("register", method, 0, {}, "redirect_home", {}, {}, {})
       /\ UNCHANGED <<teachers, students, nextId>>

\* AuthenticationForm: valid when authenticate() finds the User
login_view(method, username, passwordOk) ==
    \/ /\ method # "POST"
       /\ resp' = Response("login_view", method, 0, {}, "ok", {}, {}, {})
       /\ UNCHANGED <<store, session>>
    \/ /\ method = "POST"
       /\ ~(passwordOk /\ username \in accounts)
       /\ resp' = Response("login_view", method, 0, {}, "form_errors",
                           {<<"__all__", LoginMsg>>}, {}, {})
       /\ UNCHANGED <<store, session>>
    \/ /\ method = "POST"
       /\ passwordOk
       /\ username \in accounts
       /\ session' = username
       /\ resp' = Response("login_view", method, 0, {}, "redirect_home", {}, {}, {})
       /\ UNCHANGED store

logout_view ==
    /\ session' = NoUser
    /\ resp' = Response("logout_view", "GET", 0, {}, "redirect_home", {}, {}, {})
    /\ UNCHANGED store

----------------------------------------------------------------------------
(* Teacher deletion: Student.teacher = ForeignKey(Teacher, on_delete=CASCADE) *)

Referencing(t) == {i \in DOMAIN students : students[i].teacher = t}

DeleteTeacher_no_cascade(t) ==
    /\ t \in teachers
    /\ teachers' = teachers \ {t}
    /\ resp' = Response("Teacher.delete", "POST", t, {}, "ok", {}, {}, {})
    /\ UNCHANGED <<students, nextId, accounts, session>>
\* the collector deletes every referencing Student, sending post_delete for each
DeleteTeacher(t) ==
    /\ t \in teachers
    /\ LET h == DeleteHooks(Referencing(t), students,
                            [accounts |-> accounts, printed |-> {}])
       IN /\ teachers' = teachers \ {t}
          /\ students' = Restrict(students, DOMAIN students \ Referencing(t))
          /\ accounts' = h.accounts
          /\ session' = SessionAfter(h.accounts)
          /\ resp' = Response("Teacher.delete", "POST", t, {}, "ok", {}, {},
                              h.printed)
    /\ UNCHANGED nextId

----------------------------------------------------------------------------
(* Specifications *)

\* usernames tried at the login form
LoginInputs == RegInputs

\* request.POST of a GET request
NoData == [name |-> <<>>, age |-> 0, grade |-> <<>>, teacher |-> 0]

\* a request as the program runs it: the auxiliary variables stay as they are
Run(request) == request /\ UNCHANGED <<origName, probe>>

\* the same request with the history variable kept: every Student row created in
\* the step is entered under the name it was created with, every row removed
\* in the step is dropped
Recorded(request) ==
    /\ request
    /\ origName' = [i \in DOMAIN students' |->
                       IF i \in DOMAIN origName THEN origName[i]
                       ELSE students'[i].name]
    /\ UNCHANGED probe

Next ==
    \/ Run(home)
    \/ Run(about)
    \/ Run(contact)
    \/ Run(profile)
    \/ Run(HelloView)
    \/ Run(HomePageView)
    \/ Run(student_list)
    \/ Run(StudentListView)
    \/ \E id \in IdInputs : Run(student_detail(id))
    \/ \E id \in IdInputs : Run(StudentDetailView(id))
    \/ Run(student_form("GET", NoData))
    \/ \E d \in PlainData : Run(student_form("POST", d))
    \/ Run(add_student("GET", NoData))
    \/ \E d \in POSTData : Run(add_student("POST", d))
    \/ \E id \in IdInputs : Run(update_student("GET", id, NoData))
    \/ \E id \in IdInputs, d \in POSTData : Run(update_student("POST", id, d))
    \/ \E m \in Methods, id \in IdInputs : Run(delete_student(m, id))
    \/ Run(register("GET", NoUser, FALSE))
    \/ \E u \in RegInputs, ok \in BOOLEAN : Run(register("POST", u, ok))
    \/ Run(login_view("GET", NoUser, FALSE))
    \/ \E u \in LoginInputs, ok \in BOOLEAN : Run(login_view("POST", u, ok))
    \/ Run(logout_view)
    \/ \E t \in InitialTeachers : Run(DeleteTeacher(t))

Spec == Init /\ [][Next]_vars

NextHist ==
    \/ Recorded(home)
    \/ Recorded(about)
    \/ Recorded(contact)
    \/ Recorded(profile)
    \/ Recorded(HelloView)
    \/ Recorded(HomePageView)
    \/ Recorded(student_list)
    \/ Recorded(StudentListView)
    \/ \E id \in IdInputs : Recorded(student_detail(id))
    \/ \E id \in IdInputs : Recorded(StudentDetailView(id))
    \/ Recorded(student_form("GET", NoData))
    \/ \E d \in PlainData : Recorded(student_form("POST", d))
    \/ Recorded(add_student("GET", NoData))
    \/ \E d \in POSTData : Recorded(add_student("POST", d))
    \/ \E id \in IdInputs : Recorded(update_student("GET", id, NoData))
    \/ \E id \in IdInputs, d \in POSTData : Recorded(update_student("POST", id, d))
    \/ \E m \in Methods, id \in IdInputs : Recorded(delete_student(m, id))
    \/ Recorded(register("GET", NoUser, FALSE))
    \/ \E u \in RegInputs, ok \in BOOLEAN : Recorded(register("POST", u, ok))
    \/ Recorded(login_view("GET", NoUser, FALSE))
    \/ \E u \in LoginInputs, ok \in BOOLEAN : Recorded(login_view("POST", u, ok))
    \/ Recorded(logout_view)
    \/ \E t \in InitialTeachers : Recorded(DeleteTeacher(t))

\* Spec with the creation names recorded
SpecHist == Init /\ [][NextHist]_vars

\* is_valid() of both student forms on the same POST data; the store is read,
\* never written
BindForms(d) ==
    /\ probe' = [data |-> d, plain |-> StudentFormErrors(d),
                 model |-> StudentModelFormErrors(d, teachers)]
    /\ UNCHANGED <<store, session, resp, origName>>

NextForms ==
    \/ \E d \in ProbeData : BindForms(d)
    \/ \E t \in InitialTeachers : Run(DeleteTeacher(t))

SpecForms == Init /\ [][NextForms]_vars

\* only add_student POSTs and delete_student POSTs, and no add_student whose
\* name derives the username of a persisted Student
NoPersistedClash(d) ==
    \A i \in DOMAIN students : Username(students[i].name) # Username(d.name)

NextAddDelete ==
    \/ \E d \in POSTData : NoPersistedClash(d) /\ Run(add_student("POST", d))
    \/ \E id \in IdInputs : Run(delete_student("POST", id))

SpecAddDelete == Init /\ [][NextAddDelete]_vars

----------------------------------------------------------------------------
(* Claims *)

StudentPost(r) ==
    r.view \in {"add_student", "update_student"} /\ r.method = "POST"

DerivedBy(rows, u) == {i \in DOMAIN rows : Username(rows[i].name) = u}

AgeErrorsOf(errors) == {e \in errors : e[1] = "age"}

\* C1 as stated: every POST to add_student or update_student that submits an
\* age below 18 is answered with the error "Age must be at least 18." and
\* writes nothing (Student rows and Accounts are as before).
C1_Original ==
    [][(StudentPost(resp') /\ \E a \in resp'.age : a < AgeLimit)
         => /\ resp'.kind = "form_errors"
            /\ <<"age", AgeMsg>> \in resp'.errors
            /\ students' = students
            /\ accounts' = accounts]_vars

\* C1 amended: such a POST (to update_student: for an existing Student) is
\* rejected and writes nothing; the age error is "Age must be at least 18."
\* for 0 <= age < 18 and the field's minimum-value error for a negative age.
C1_Amended ==
    [][(StudentPost(resp') /\ \E a \in resp'.age : a < AgeLimit)
         => /\ resp'.kind = "form_errors"
            /\ \A a \in resp'.age :
                 AgeErrorsOf(resp'.errors) =
                   IF a < 0 THEN {<<"age", MinMsg>>} ELSE {<<"age", AgeMsg>>}
            /\ students' = students
            /\ accounts' = accounts]_vars

C1_Witness ==
    /\ resp.view = "update_student"
    /\ resp.method = "POST"
    /\ resp.age = {-1}
    /\ resp.kind = "form_errors"
    /\ resp.id \in DOMAIN students

\* C2 as stated: every creation of a Student adds one Account, under the
\* username derived from the name, and once that Student is deleted no Account
\* exists under the username derived from the name it was created with.
C2_Claim ==
    [][/\ \A i \in DOMAIN students' \ DOMAIN students :
             /\ Username(students'[i].name) \notin accounts
             /\ accounts' = accounts \cup {Username(students'[i].name)}
       /\ \A i \in DOMAIN students \ DOMAIN students' :
             Username(origName[i]) \notin accounts']_vars

\* C3 as stated: a Student created under a name whose derived username is
\* taken fails with an unhandled error, adds no Account, stays persisted, and
\* then more Students than Accounts carry that derived username.
C3_Original ==
    [][(resp'.view = "add_student" /\ resp'.method = "POST"
          /\ resp'.kind \in {"server_error", "redirect_student_list"})
         => /\ resp'.id \in DOMAIN students' \ DOMAIN students
            /\ LET u == Username(students'[resp'.id].name)
               IN /\ (u \in accounts) = (resp'.kind = "server_error")
                  /\ u \in accounts =>
                       /\ accounts' = accounts
                       /\ Cardinality(DerivedBy(students', u)) >
                            Cardinality({u} \cap accounts')]_vars

\* C3 amended: ... and then at least as many Students as Accounts carry that
\* derived username (exactly one Account does), strictly more when another
\* persisted Student already derived it.
C3_Amended ==
    [][(resp'.view = "add_student" /\ resp'.method = "POST"
          /\ resp'.kind \in {"server_error", "redirect_student_list"})
         => /\ resp'.id \in DOMAIN students' \ DOMAIN students
            /\ LET u == Username(students'[resp'.id].name)
               IN /\ (u \in accounts) = (resp'.kind = "server_error")
                  /\ u \in accounts =>
                       /\ accounts' = accounts
                       /\ Cardinality({u} \cap accounts') = 1
                       /\ Cardinality(DerivedBy(students', u)) >= 1
                       /\ DerivedBy(students, u) # {} =>
                            Cardinality(DerivedBy(students', u)) > 1]_vars

C3_Witness ==
    /\ resp.view = "add_student"
    /\ resp.kind = "server_error"
    /\ resp.id \in DOMAIN students
    /\ Cardinality(DerivedBy(students, Username(students[resp.id].name))) = 2
    /\ Cardinality(accounts) = 1

\* C4: a successful update_student rewrites the one Student row in place with
\* the submitted values, adds or removes no row, runs no account sync and
\* leaves the set of Accounts as it was, a change of name included.
C4_UpdateInPlace ==
    [][(resp'.view = "update_student" /\ resp'.method = "POST"
          /\ resp'.kind # "form_errors" /\ resp'.kind # "not_found")
         => /\ resp'.kind = "redirect_student_list"
            /\ resp'.hook = {}
            /\ resp'.id \in DOMAIN students
            /\ DOMAIN students' = DOMAIN students
            /\ \A j \in DOMAIN students \ {resp'.id} : students'[j] = students[j]
            /\ students'[resp'.id] \in {Cleaned(d) : d \in POSTData}
            /\ students'[resp'.id].age \in resp'.age
            /\ accounts' = accounts
            /\ nextId' = nextId]_vars

\* one Student was ever created, it is now named Bob, no Account "bob" exists
\* and the Account of its former name does
C4_Witness ==
    /\ resp.view = "update_student"
    /\ resp.kind = "redirect_student_list"
    /\ nextId = 2
    /\ resp.id \in DOMAIN students
    /\ students[resp.id].name = Strip(BobBlank)
    /\ accounts = {Username(AnnLee)}

\* C5: whenever Student rows are deleted, exactly the Accounts under the
\* usernames derived from their names at that time are deleted; a missing
\* Account raises nothing, the row is removed all the same and every other
\* Account stays.
C5_DeleteHook ==
    [][/\ (DOMAIN students \ DOMAIN students' # {})
          => /\ accounts' = accounts \
                  {Username(students[i].name) : i \in DOMAIN students \ DOMAIN students'}
             /\ resp'.kind # "server_error"
       /\ (resp'.view = "delete_student" /\ resp'.method = "POST"
             /\ resp'.id \in DOMAIN students)
          => /\ resp'.id \notin DOMAIN students'
             /\ resp'.kind = "redirect_student_list"
             /\ accounts' = accounts \ {Username(students[resp'.id].name)}
             /\ resp'.hook = IF Username(students[resp'.id].name) \in accounts
                             THEN {"deleted"} ELSE {"no_account"}]_vars

C5_Witness ==
    /\ resp.view = "delete_student"
    /\ resp.kind = "redirect_student_list"
    /\ resp.hook = {"no_account"}
    /\ resp.id \notin DOMAIN students
    /\ accounts # {}

\* C6: deleting a Teacher removes exactly the Students that reference it and
\* leaves the others as they were; every persisted Student references a
\* persisted Teacher.
C6_Cascade ==
    /\ [](\A i \in DOMAIN students : students[i].teacher \in teachers)
    /\ [][\A t \in teachers \ teachers' :
            /\ DOMAIN students' = {i \in DOMAIN students : students[i].teacher # t}
            /\ \A i \in DOMAIN students' : students'[i] = students[i]]_vars

C6_Witness ==
    /\ resp.view = "Teacher.delete"
    /\ resp.hook # {}
    /\ students # <<>>
    /\ nextId = MaxStudentId + 1

\* C7: without a session student_list answers with the redirect to login and
\* no Student data, student_detail answers with the row, and no view other
\* than student_list ever redirects to login.
C7_LoginRequired ==
    /\ resp.view = "student_list" =>
         IF IsAuthenticated
         THEN resp.kind = "ok" /\ resp.data = DOMAIN students
         ELSE resp.kind = "redirect_login" /\ resp.data = {}
    /\ (resp.view = "student_detail" /\ resp.id \in DOMAIN students) =>
         resp.kind = "ok" /\ resp.data = {resp.id}
    /\ resp.view # "student_list" => resp.kind # "redirect_login"

C7_Witness ==
    /\ resp.view = "student_list"
    /\ resp.kind = "redirect_login"
    /\ ~IsAuthenticated
    /\ students # <<>>

\* C8 as stated: every request to delete_student for an existing id leaves
\* that Student absent, the deletion hook having run; a request for an unknown
\* id is answered not-found and changes nothing.
C8_Original ==
    [][resp'.view = "delete_student"
         => IF resp'.id \in DOMAIN students
            THEN resp'.id \notin DOMAIN students' /\ resp'.hook # {}
            ELSE /\ resp'.kind = "not_found"
                 /\ UNCHANGED <<teachers, students, nextId, accounts>>]_vars

\* C8 amended: every POST request does so; any other request for an existing
\* id shows the confirmation page and changes nothing.
C8_Amended ==
    [][resp'.view = "delete_student"
         => IF resp'.id \in DOMAIN students
            THEN IF resp'.method = "POST"
                 THEN resp'.id \notin DOMAIN students' /\ resp'.hook # {}
                 ELSE /\ resp'.kind = "ok"
                      /\ UNCHANGED <<teachers, students, nextId, accounts>>
            ELSE /\ resp'.kind = "not_found"
                 /\ UNCHANGED <<teachers, students, nextId, accounts>>]_vars

C8_Witness ==
    /\ resp.view = "delete_student"
    /\ resp.method = "POST"
    /\ resp.kind = "redirect_student_list"
    /\ resp.id \notin DOMAIN students
    /\ resp.hook = {"deleted"}

OtherFieldsValid(d) ==
    /\ CharFieldErrors("name", d.name, NameMaxForm) = {}
    /\ CharFieldErrors("grade", d.grade, GradeMax) = {}
    /\ d.teacher \in teachers

\* C9 as stated: with the other fields valid, StudentForm and StudentModelForm
\* agree on every integer age: both accept exactly when age >= 18 and both
\* reject with "Age must be at least 18.".
C9_Original ==
    (probe # <<>> /\ OtherFieldsValid(probe.data)) =>
        /\ probe.plain = probe.model
        /\ (probe.plain = {}) = (probe.data.age >= AgeLimit)
        /\ probe.plain # {} => probe.plain = {<<"age", AgeMsg>>}

\* C9 amended: both give the same verdict (accepted exactly when age >= 18);
\* for 0 <= age < 18 both reject with "Age must be at least 18."; for a
\* negative age StudentForm rejects with that error and StudentModelForm with
\* the minimum-value error of its field.
C9_Amended ==
    (probe # <<>> /\ OtherFieldsValid(probe.data)) =>
        /\ (probe.plain = {}) = (probe.model = {})
        /\ (probe.plain = {}) = (probe.data.age >= AgeLimit)
        /\ probe.plain # {} => probe.plain = {<<"age", AgeMsg>>}
        /\ probe.model # {} =>
             probe.model = IF probe.data.age < 0 THEN {<<"age", MinMsg>>}
                           ELSE {<<"age", AgeMsg>>}

C9_Witness ==
    /\ probe # <<>>
    /\ OtherFieldsValid(probe.data)
    /\ probe.data.age < 0
    /\ probe.plain = {<<"age", AgeMsg>>}
    /\ probe.model = {<<"age", MinMsg>>}

\* C10: over add_student and delete_student POSTs alone, from empty stores and
\* with no add under a derived username a persisted Student has, the Account
\* usernames are exactly the derived usernames of the persisted Students, one
\* Account per Student.
C10_AccountsMatchStudents ==
    /\ accounts = {Username(students[i].name) : i \in DOMAIN students}
    /\ Cardinality(accounts) = Cardinality(DOMAIN students)

C10_Witness ==
    /\ resp.view = "delete_student"
    /\ resp.hook = {"deleted"}
    /\ Cardinality(DOMAIN students) = 1
    /\ Cardinality(accounts) = 1

====
